---- MODULE Spec2Model ----
(***************************************************************************)
(* Model of helper.py, the Mumble Link helper: main() constructs a          *)
(* MumbleLinkHelper, start_server opens the shared region and serves        *)
(* WebSocket connections, handle_client decodes each message and            *)
(* update_mumble_link builds the LinkedMem record and writes it.            *)
(*                                                                         *)
(* A record (bytearray) is modelled by its length and its fields: numeric  *)
(* fields by their packed value, text and context fields by the number of  *)
(* bytes written into them.  A string is modelled by its number of         *)
(* characters and the UTF-16 code units each of them takes.                *)
(***************************************************************************)
EXTENDS Integers, Sequences, FiniteSets, TLC

\* ------------------------------------------------------------- bounds
NumConns == 2
MaxUid == 1

\* ------------------------------------------------- program constants
RecordSize == 2048
MapSize == 2048
DefaultVersion == 4
NameChars == 255
NameBytes == 510
NameSlot == 512
IdentityChars == 255
IdentityBytes == 510
IdentitySlot == 512
ContextMax == 256
ContextSlot == 256
DescriptionChars == 2047
DescriptionBytes == 4094
F32Exact == 16777216

Min(a, b) == IF a < b THEN a ELSE b

\* ------------------------------------------------------------ strings
\* a str of len characters, each taking `units` UTF-16 code units
Str(n, w) == [len |-> n, units |-> w]

\* s[:k]
StrSlice(s, k) == [s EXCEPT !.len = Min(s.len, k)]

\* len(s.encode('utf-16le')[:k])
EncodeUtf16(s, k) == Min(s.len * s.units * 2, k)

\* ------------------------------------------------------------- struct
\* struct.pack('<f', x) read back: the nearest float32 (ties to even);
\* integers up to 2^24 are exact, between 2^24 and 2^25 the spacing is 2
PackF(x) ==
    LET a == IF x < 0 THEN -x ELSE x
        r == IF a <= F32Exact THEN a
             ELSE IF a % 2 = 0 THEN a
             ELSE IF ((a - 1) \div 2) % 2 = 0 THEN a - 1 ELSE a + 1
    IN IF x < 0 THEN -r ELSE r

\* A Python int that is packed with '<I' is kept as two limbs, value
\* hi * 2^16 + lo with lo in 0..2^16-1: the values of interest reach 2^32
Limb == 256 * 256
Word(n) == [hi |-> n \div Limb, lo |-> n % Limb]
MaxU32 == [hi |-> Limb - 1, lo |-> Limb - 1]
TwoTo32 == [hi |-> Limb, lo |-> 0]

\* v + 1
AddOne(v) ==
    IF v.lo = Limb - 1 THEN [hi |-> v.hi + 1, lo |-> 0]
    ELSE [hi |-> v.hi, lo |-> v.lo + 1]

\* struct.pack_into('<I', ...) raises struct.error outside 0..2^32-1
PackableU32(v) == v.hi >= 0 /\ v.hi < Limb

\* binary_data[offset:offset+n] = <n bytes>: the new length of a bytearray
\* of `size` bytes (a slice reaching past the end extends the bytearray)
SliceAssign(size, offset, n) ==
    IF offset + n <= size THEN size ELSE offset + n

\* ---------------------------------------------------- record layout
OffVersion == 0
OffTick == OffVersion + 4
OffAvatarPosition == OffTick + 4
OffAvatarFront == OffAvatarPosition + 12
OffAvatarTop == OffAvatarFront + 12
OffName == OffAvatarTop + 12
OffCameraPosition == OffName + NameSlot
OffCameraFront == OffCameraPosition + 12
OffCameraTop == OffCameraFront + 12
OffIdentity == OffCameraTop + 12
OffContextLen == OffIdentity + IdentitySlot
OffContext == OffContextLen + 4
OffDescription == OffContext + ContextSlot

\* bytearray(2048)
ZeroRecord ==
    [size |-> RecordSize, uiVersion |-> Word(0), uiTick |-> Word(0),
     fAvatarPosition |-> <<0, 0, 0>>, fAvatarFront |-> <<0, 0, 0>>,
     fAvatarTop |-> <<0, 0, 0>>, name |-> 0,
     fCameraPosition |-> <<0, 0, 0>>, fCameraFront |-> <<0, 0, 0>>,
     fCameraTop |-> <<0, 0, 0>>, identity |-> 0,
     context_len |-> 0, context |-> 0, description |-> 0]

\* ----------------------------------------------------------- messages
\* data.get(k, d)
Get(data, k, d) == IF k \in DOMAIN data THEN data[k] ELSE d

NoMessage == [parse |-> "none"]

\* the payloads a client sends: parse is what json.loads makes of the text
Messages ==
    { [parse |-> "badjson"],
      [parse |-> "nonobject"],
      [parse |-> "object"],
      [parse |-> "object", name |-> Str(5, 1), fAvatarPosition |-> <<1, 2, 3>>],
      [parse |-> "object", uiVersion |-> Word(2),
       fAvatarPosition |-> <<1, 2, 3>>, fAvatarFront |-> <<1, 0, 0>>,
       fAvatarTop |-> <<0, 0, 1>>, fCameraPosition |-> <<4, 5, 6>>,
       fCameraFront |-> <<0, 1, 0>>, fCameraTop |-> <<1, 0, 0>>,
       identity |-> Str(10, 1), context |-> [len |-> 3, bytes |-> TRUE],
       description |-> Str(20, 1)],
      [parse |-> "object", fAvatarPosition |-> <<1, 2>>],
      [parse |-> "object", fAvatarFront |-> <<>>],
      [parse |-> "object", fAvatarPosition |-> <<1, 2, 3>>, fCameraTop |-> <<7>>],
      [parse |-> "object", fAvatarPosition |-> <<16777217, 2, 3, 9>>,
       fAvatarTop |-> <<0, -16777219, 0>>],
      [parse |-> "object", name |-> Str(300, 1), identity |-> Str(255, 2),
       context |-> [len |-> 300, bytes |-> TRUE]],
      [parse |-> "object", context |-> [len |-> 256, bytes |-> TRUE],
       description |-> Str(342, 1)],
      [parse |-> "object", description |-> Str(343, 1)],
      [parse |-> "object", name |-> Str(256, 2), description |-> Str(3000, 1)],
      [parse |-> "object", context |-> [len |-> 2, bytes |-> FALSE]],
      [parse |-> "object", uiVersion |-> TwoTo32] }

VARIABLES system, uid, handleExists, mapOk, phase, exitCode, link_name,
          initResult, mumble_memory, region, region0, clients, pc, msg,
          outcome, running, binary_data, log

vars == <<system, uid, handleExists, mapOk, phase, exitCode, link_name,
          initResult, mumble_memory, region, region0, clients, pc, msg,
          outcome, running, binary_data, log>>


Conns == 1..NumConns
Systems == {"Windows", "Linux", "Darwin", "Other"}
InitialTicks == {Word(0), Word(7), MaxU32}

\* the names bound in the module's global namespace by its imports
ModuleNames ==
    {"asyncio", "json", "mmap", "struct", "websockets", "logging", "Path",
     "sys", "platform"}

LinkUnset == [kind |-> "unset"]
LinkNone == [kind |-> "None"]

\* _get_link_name with every other system treated as a Unix with /tmp
_get_link_name_AnyUnix(sys, u) ==
    IF sys = "Windows"
    THEN [raised |-> FALSE, logged |-> {},
          value |-> [kind |-> "str", text |-> "MumbleLink"]]
    ELSE [raised |-> FALSE, logged |-> {},
          value |-> [kind |-> "str", text |-> "/tmp/MumbleLink.", uid |-> u]]

\* _get_link_name: raised is the NameError of a global name that no import binds
_get_link_name(sys, u) ==
    IF sys = "Windows"
    THEN [raised |-> FALSE, logged |-> {},
          value |-> [kind |-> "str", text |-> "MumbleLink"]]
    ELSE IF sys = "Linux"
    THEN [raised |-> "os" \notin ModuleNames, logged |-> {},
          value |-> [kind |-> "str", text |-> "/dev/shm/MumbleLink.", uid |-> u]]
    ELSE IF sys = "Darwin"
    THEN [raised |-> "os" \notin ModuleNames, logged |-> {},
          value |-> [kind |-> "str", text |-> "/tmp/MumbleLink.", uid |-> u]]
    ELSE [raised |-> FALSE, logged |-> {"unsupported_platform"},
          value |-> LinkNone]

\* initialize_mumble_link: the value returned, the mapping stored in
\* self.mumble_memory (unchanged when the code does not assign it) and the log
initialize_mumble_link(sys, name, exists, mappable, mem) ==
    IF sys = "Windows"
    THEN IF ~exists
         THEN [ok |-> FALSE, memory |-> mem, logged |-> {"link_not_found"}]
         ELSE IF ~mappable
         THEN [ok |-> FALSE, memory |-> "null", logged |-> {"map_failed"}]
         ELSE [ok |-> TRUE, memory |-> "mapped", logged |-> {"connected"}]
    ELSE IF name.kind # "str"
         THEN [ok |-> FALSE, memory |-> mem, logged |-> {"init_failed"}]
         ELSE IF ~exists
         THEN [ok |-> FALSE, memory |-> mem, logged |-> {"link_not_found"}]
         ELSE IF ~mappable
         THEN [ok |-> FALSE, memory |-> mem, logged |-> {"init_failed"}]
         ELSE [ok |-> TRUE, memory |-> "mapped", logged |-> {"connected"}]

\* ------------------------------------------------------------ encoder
\* PackVector with the missing elements of a short vector left at zero
PackVectorZeroFill(v) ==
    [raised |-> FALSE,
     value |-> [i \in 1..3 |-> IF i <= Len(v) THEN PackF(v[i]) ELSE 0]]

\* for i in range(3): struct.pack_into('<f', binary_data, offset, v[i])
PackVector(v) ==
    IF Len(v) < 3
    THEN [raised |-> TRUE, value |-> <<0, 0, 0>>]
    ELSE [raised |-> FALSE, value |-> <<PackF(v[1]), PackF(v[2]), PackF(v[3])>>]

\* CameraVector with a fixed default instead of the avatar's vector
CameraVectorFixedDefault(data, key, avatar) == Get(data, key, <<0, 0, 0>>)

\* data.get('fCameraPosition', pos) and its two siblings
CameraVector(data, key, avatar) == Get(data, key, avatar)

\* the tick update_mumble_link packs: read from binary_data at offset 4, plus one
NextTick(buffer) == AddOne(buffer.uiTick)

\* lines 110-186 of update_mumble_link: the record built from data, or raised
Encode(data) ==
    LET isObject == data.parse = "object"
        fresh == ZeroRecord
        version == Get(data, "uiVersion", Word(DefaultVersion))
        tick == NextTick([fresh EXCEPT !.uiVersion = version])
        pos == Get(data, "fAvatarPosition", <<0, 0, 0>>)
        front == Get(data, "fAvatarFront", <<0, 0, 1>>)
        top == Get(data, "fAvatarTop", <<0, 1, 0>>)
        name_wide ==
            EncodeUtf16(StrSlice(Get(data, "name", Str(16, 1)), NameChars), NameBytes)
        cam_pos == CameraVector(data, "fCameraPosition", pos)
        cam_front == CameraVector(data, "fCameraFront", front)
        cam_top == CameraVector(data, "fCameraTop", top)
        identity_wide ==
            EncodeUtf16(StrSlice(Get(data, "identity", Str(2, 1)), IdentityChars),
                        IdentityBytes)
        context == Get(data, "context", [len |-> 0, bytes |-> TRUE])
        context_len == Min(context.len, ContextMax)
        context_bytes == IF context.len > 0 THEN Min(context.len, ContextMax) ELSE 0
        desc_wide ==
            EncodeUtf16(StrSlice(Get(data, "description", Str(11, 1)), DescriptionChars),
                        DescriptionBytes)
        size1 == SliceAssign(RecordSize, OffName, name_wide)
        size2 == SliceAssign(size1, OffIdentity, identity_wide)
        size3 == SliceAssign(size2, OffContext, context_bytes)
        size4 == SliceAssign(size3, OffDescription, desc_wide)
        raised ==
            \/ ~isObject
            \/ ~PackableU32(version)
            \/ ~PackableU32(tick)
            \/ PackVector(pos).raised
            \/ PackVector(front).raised
            \/ PackVector(top).raised
            \/ PackVector(cam_pos).raised
            \/ PackVector(cam_front).raised
            \/ PackVector(cam_top).raised
            \/ (context.len > 0 /\ ~context.bytes)
    IN IF raised
       THEN [raised |-> TRUE, bin |-> ZeroRecord]
       ELSE [raised |-> FALSE,
             bin |-> [size |-> size4, uiVersion |-> version, uiTick |-> tick,
                      fAvatarPosition |-> PackVector(pos).value,
                      fAvatarFront |-> PackVector(front).value,
                      fAvatarTop |-> PackVector(top).value,
                      name |-> name_wide,
                      fCameraPosition |-> PackVector(cam_pos).value,
                      fCameraFront |-> PackVector(cam_front).value,
                      fCameraTop |-> PackVector(cam_top).value,
                      identity |-> identity_wide,
                      context_len |-> context_len,
                      context |-> context_bytes,
                      description |-> desc_wide]]

\* lines 188-194: the region after the write, or raised (region unchanged)
WriteMemory(sys, mem, bin) ==
    IF sys = "Windows"
    THEN IF "ctypes" \notin ModuleNames
         THEN [raised |-> TRUE, region |-> mem]
         ELSE [raised |-> FALSE, region |-> bin]
    ELSE IF bin.size > MapSize
    THEN [raised |-> TRUE, region |-> mem]
    ELSE [raised |-> FALSE, region |-> bin]

\* --------------------------------------------------------------- Init
Init ==
    /\ system \in Systems
    /\ uid \in 0..MaxUid
    /\ handleExists \in BOOLEAN
    /\ mapOk \in BOOLEAN
    /\ region0 \in {[ZeroRecord EXCEPT !.uiTick = t] : t \in InitialTicks}
    /\ region = region0
    /\ phase = "start"
    /\ exitCode = 0
    /\ link_name = LinkUnset
    /\ initResult = FALSE
    /\ mumble_memory = "unset"
    /\ clients = {}
    /\ pc = [c \in Conns |-> "closed"]
    /\ msg = [c \in Conns |-> NoMessage]
    /\ outcome = [c \in Conns |-> "none"]
    /\ running = {}
    /\ binary_data = ZeroRecord
    /\ log = {}

connVars == <<clients, pc, msg, outcome, running, binary_data>>
envVars == <<system, uid, handleExists, mapOk, region0>>

\* ------------------------------------------------------------ startup
\* main, line 247: MumbleLinkHelper() runs outside the try of lines 249-255,
\* so an exception of __init__ ends the process with a traceback and status 1
Construct ==
    /\ phase = "start"
    /\ LET r == _get_link_name(system, uid)
       IN IF r.raised
          THEN /\ phase' = "exited"
               /\ exitCode' = 1
               /\ log' = log \cup {"traceback"}
               /\ UNCHANGED link_name
          ELSE /\ phase' = "constructed"
               /\ link_name' = r.value
               /\ log' = log \cup r.logged
               /\ UNCHANGED exitCode
    /\ UNCHANGED <<initResult, mumble_memory, region>>
    /\ UNCHANGED connVars
    /\ UNCHANGED envVars

\* start_server, line 223: await self.initialize_mumble_link()
InitializeMumbleLink ==
    /\ phase = "constructed"
    /\ LET r == initialize_mumble_link(system, link_name, handleExists, mapOk,
                                       mumble_memory)
       IN /\ initResult' = r.ok
          /\ mumble_memory' = r.memory
          /\ log' = log \cup r.logged
    /\ phase' = "initialized"
    /\ UNCHANGED <<exitCode, link_name, region>>
    /\ UNCHANGED connVars
    /\ UNCHANGED envVars

\* StartServer without the early return of lines 223-225
StartServerRegardless ==
    /\ phase = "initialized"
    /\ phase' = "serving"
    /\ log' = log \cup {"server_started"}
    /\ UNCHANGED <<exitCode, link_name, initResult, mumble_memory, region>>
    /\ UNCHANGED connVars
    /\ UNCHANGED envVars

\* start_server, lines 223-231: return when initialization failed (asyncio.run
\* returns, main ends, status 0), else bind the listener and run forever
StartServer ==
    /\ phase = "initialized"
    /\ IF ~initResult
       THEN /\ phase' = "exited"
            /\ exitCode' = 0
            /\ log' = log \cup {"exiting"}
       ELSE /\ phase' = "serving"
            /\ log' = log \cup {"server_started"}
            /\ UNCHANGED exitCode
    /\ UNCHANGED <<link_name, initResult, mumble_memory, region>>
    /\ UNCHANGED connVars
    /\ UNCHANGED envVars

\* main, lines 251-252: Ctrl-C while the loop waits; the handlers' finally
\* blocks empty self.clients
KeyboardInterrupt ==
    /\ phase = "serving"
    /\ running = {}
    /\ phase' = "exited"
    /\ exitCode' = 0
    /\ log' = log \cup {"shutting_down"}
    /\ clients' = {}
    /\ pc' = [c \in Conns |-> "closed"]
    /\ msg' = [c \in Conns |-> NoMessage]
    /\ UNCHANGED <<outcome, running, binary_data>>
    /\ UNCHANGED <<link_name, initResult, mumble_memory, region>>
    /\ UNCHANGED envVars

\* -------------------------------------------------------- connections
startVars == <<phase, exitCode, link_name, initResult, mumble_memory, log>>

\* LoopFree of a scheduler that switches tasks inside a handler
LoopFreePreemptive == TRUE

\* the event loop runs one task at a time and switches only at an await:
\* a handler gets its next message only when no handler is running
LoopFree == running = {}

\* websockets.serve calls handle_client for a new connection, lines 201-202
Connect(c) ==
    /\ phase = "serving"
    /\ LoopFree
    /\ pc[c] = "closed"
    /\ pc' = [pc EXCEPT ![c] = "idle"]
    /\ clients' = clients \cup {c}
    /\ outcome' = [outcome EXCEPT ![c] = "none"]
    /\ UNCHANGED <<msg, running, binary_data, region>>
    /\ UNCHANGED startVars
    /\ UNCHANGED envVars

\* the peer closes: async for ends, lines 216-219
Disconnect(c) ==
    /\ phase = "serving"
    /\ LoopFree
    /\ pc[c] = "idle"
    /\ pc' = [pc EXCEPT ![c] = "closed"]
    /\ clients' = clients \ {c}
    /\ UNCHANGED <<msg, outcome, running, binary_data, region>>
    /\ UNCHANGED startVars
    /\ UNCHANGED envVars

\* async for message in websocket, line 205
Receive(c, m) ==
    /\ phase = "serving"
    /\ LoopFree
    /\ pc[c] = "idle"
    /\ pc' = [pc EXCEPT ![c] = "loads"]
    /\ msg' = [msg EXCEPT ![c] = m]
    /\ outcome' = [outcome EXCEPT ![c] = "none"]
    /\ running' = {c}
    /\ UNCHANGED <<clients, binary_data, region>>
    /\ UNCHANGED startVars
    /\ UNCHANGED envVars

\* back at the await of line 205: data and binary_data go out of use
Return(c, result) ==
    /\ pc' = [pc EXCEPT ![c] = "idle"]
    /\ msg' = [msg EXCEPT ![c] = NoMessage]
    /\ outcome' = [outcome EXCEPT ![c] = result]
    /\ running' = {}
    /\ binary_data' = ZeroRecord

\* data = json.loads(message), lines 207 and 211-212
JsonLoads(c) ==
    /\ running = {c}
    /\ pc[c] = "loads"
    /\ IF msg[c].parse = "badjson"
       THEN Return(c, "invalid_json")
       ELSE /\ pc' = [pc EXCEPT ![c] = "update"]
            /\ UNCHANGED <<msg, outcome, running, binary_data>>
    /\ UNCHANGED <<clients, region>>
    /\ UNCHANGED startVars
    /\ UNCHANGED envVars

\* update_mumble_link, lines 89-186 and 196-197: the guard and the encoding
UpdateMumbleLink(c) ==
    /\ running = {c}
    /\ pc[c] = "update"
    /\ IF mumble_memory = "unset"
       THEN Return(c, "processing_error")
       ELSE IF mumble_memory = "null"
       THEN /\ pc' = [pc EXCEPT ![c] = "debug"]
            /\ outcome' = [outcome EXCEPT ![c] = "noop"]
            /\ UNCHANGED <<msg, running, binary_data>>
       ELSE LET e == Encode(msg[c])
            IN IF e.raised
               THEN /\ pc' = [pc EXCEPT ![c] = "debug"]
                    /\ outcome' = [outcome EXCEPT ![c] = "update_error"]
                    /\ UNCHANGED <<msg, running, binary_data>>
               ELSE /\ pc' = [pc EXCEPT ![c] = "write"]
                    /\ binary_data' = e.bin
                    /\ UNCHANGED <<msg, running, outcome>>
    /\ UNCHANGED <<clients, region>>
    /\ UNCHANGED startVars
    /\ UNCHANGED envVars

\* update_mumble_link, lines 188-197: the write to the region
Write(c) ==
    /\ running = {c}
    /\ pc[c] = "write"
    /\ LET w == WriteMemory(system, region, binary_data)
       IN /\ region' = w.region
          /\ outcome' = [outcome EXCEPT
                           ![c] = IF w.raised THEN "update_error" ELSE "written"]
    /\ pc' = [pc EXCEPT ![c] = "debug"]
    /\ UNCHANGED <<clients, msg, running, binary_data>>
    /\ UNCHANGED startVars
    /\ UNCHANGED envVars

\* logger.debug(f"... {data.get('name', 'Unknown')}"), lines 209 and 213-214
LogDebug(c) ==
    /\ running = {c}
    /\ pc[c] = "debug"
    /\ IF msg[c].parse # "object"
       THEN Return(c, "processing_error")
       ELSE Return(c, outcome[c])
    /\ UNCHANGED <<clients, region>>
    /\ UNCHANGED startVars
    /\ UNCHANGED envVars

Next ==
    \/ Construct
    \/ InitializeMumbleLink
    \/ StartServer
    \/ KeyboardInterrupt
    \/ \E c \in Conns : Connect(c)
    \/ \E c \in Conns : Disconnect(c)
    \/ \E c \in Conns : \E m \in Messages : Receive(c, m)
    \/ \E c \in Conns : JsonLoads(c)
    \/ \E c \in Conns : UpdateMumbleLink(c)
    \/ \E c \in Conns : Write(c)
    \/ \E c \in Conns : LogDebug(c)

Spec == Init /\ [][Next]_vars

TypeOK ==
    /\ phase \in {"start", "constructed", "initialized", "serving", "exited"}
    /\ exitCode \in {0, 1}
    /\ mumble_memory \in {"unset", "null", "mapped"}
    /\ clients \subseteq Conns
    /\ running \subseteq Conns
    /\ \A c \in Conns : pc[c] \in {"closed", "idle", "loads", "update", "write", "debug"}

\* ------------------------------------------------------------- claims
VectorKeys ==
    {"fAvatarPosition", "fAvatarFront", "fAvatarTop",
     "fCameraPosition", "fCameraFront", "fCameraTop"}
CameraKeys == {"fCameraPosition", "fCameraFront", "fCameraTop"}
TextLimits == [name |-> NameChars, identity |-> IdentityChars,
               description |-> DescriptionChars]

HasShortVector(m) == \E k \in VectorKeys \cap DOMAIN m : Len(m[k]) < 3
Overlong(m) ==
    \/ \E k \in DOMAIN TextLimits \cap DOMAIN m : m[k].len > TextLimits[k]
    \/ ("context" \in DOMAIN m /\ m.context.len > ContextMax)
Encodable(m) == m.parse = "object" /\ ~Encode(m).raised
CompleteRecords == {Encode(m).bin : m \in {x \in Messages : Encodable(x)}}
InUpdate(c) == pc[c] \in {"update", "write"}
IncMod32(v) == LET n == AddOne(v) IN [n EXCEPT !.hi = n.hi % Limb]

\* C1: the record that update_mumble_link hands to the region write is
\* exactly 2048 bytes long, whatever the message
C1_RecordIs2048 ==
    \A c \in Conns : pc[c] = "write" => binary_data.size = RecordSize

\* C2: every update reads the previous tick from the live region and writes it
\* back incremented by one modulo 2^32: the record handed to the write carries
\* the region's tick plus one
C2_TickFromRegion ==
    \A c \in Conns :
        pc[c] = "write" => binary_data.uiTick = IncMod32(region.uiTick)

\* C3: at most one encode+write is in progress at a time; the region always
\* holds its initial content or the complete record of one message; and a
\* step in which an update fails leaves the region unchanged
C3_SerializedWholeRecords ==
    /\ [](/\ Cardinality({c \in Conns : InUpdate(c)}) <= 1
          /\ region \in {region0} \cup CompleteRecords)
    /\ [][(\E c \in Conns : /\ outcome'[c] = "update_error"
                            /\ outcome[c] # "update_error")
          => region' = region]_vars

\* C3 witness: an update has failed on one connection, the region still holds
\* its initial content, and another connection's update is at its write
C3_Witness ==
    \E c, d \in Conns :
        /\ c # d
        /\ outcome[c] = "update_error"
        /\ pc[d] = "write"
        /\ region = region0

\* C4: an overlong name, identity, context or description is truncated into
\* its own slot and the update is still written
C4_TruncatedAndWritten ==
    \A c \in Conns :
        (pc[c] = "debug" /\ Encodable(msg[c]) /\ Overlong(msg[c])) =>
            /\ outcome[c] = "written"
            /\ region = Encode(msg[c]).bin
            /\ region.name <= NameBytes
            /\ region.identity <= IdentityBytes
            /\ region.description <= DescriptionBytes
            /\ region.context <= ContextMax
            /\ OffContext + region.context <= OffDescription
            /\ region.context_len =
                   Min(Get(msg[c], "context", [len |-> 0]).len, ContextMax)

\* C5: when the message omits the three camera fields, the encoded camera
\* vectors equal the encoded avatar vectors, element by element
C5_CameraDefaultsToAvatar ==
    \A c \in Conns :
        (pc[c] = "write" /\ CameraKeys \cap DOMAIN msg[c] = {}) =>
            /\ binary_data.fCameraPosition = binary_data.fAvatarPosition
            /\ binary_data.fCameraFront = binary_data.fAvatarFront
            /\ binary_data.fCameraTop = binary_data.fAvatarTop

\* C5 witness: a record built from a message that gives the avatar position
\* (1,2,3) and no camera field
C5_Witness ==
    \E c \in Conns :
        /\ pc[c] = "write"
        /\ CameraKeys \cap DOMAIN msg[c] = {}
        /\ "fAvatarPosition" \in DOMAIN msg[c]
        /\ binary_data.fCameraPosition = <<1, 2, 3>>

\* C6: a malformed or failing message leaves its connection open, and a
\* well-formed message is processed and its record written to the region
C6_SurvivesAndWrites ==
    \A c \in Conns :
        /\ (pc[c] = "idle" /\ outcome[c] # "none") => c \in clients
        /\ (pc[c] = "debug" /\ Encodable(msg[c])) =>
               (outcome[c] = "written" /\ region = Encode(msg[c]).bin)

\* C7 as stated: when the region is not found at startup the listener still
\* starts
C7_ListenerStartsWithoutRegion ==
    ("link_not_found" \in log /\ phase = "exited") => "server_started" \in log

\* C7 amended: when the region is not found at startup, the warning is logged,
\* the listener is never started, no connection is accepted, nothing is
\* written, and the process ends with exit code 0
C7_NotFoundEndsStartup ==
    "link_not_found" \in log =>
        /\ phase \in {"initialized", "exited"}
        /\ ~initResult
        /\ "server_started" \notin log
        /\ clients = {}
        /\ region = region0
        /\ phase = "exited" => (exitCode = 0 /\ "exiting" \in log)

\* C7 witness: the process has ended after the not-found warning
C7_Witness == "link_not_found" \in log /\ phase = "exited"

\* C8 as stated: on an unsupported platform the process exits with a
\* non-zero exit code
C8_UnsupportedExitsNonZero ==
    (system \notin {"Windows", "Linux", "Darwin"} /\ phase = "exited")
        => exitCode # 0

\* C8 amended: on an unsupported platform the process reports the platform,
\* never binds the listener, and exits with exit code 0
C8_UnsupportedNeverBinds ==
    system \notin {"Windows", "Linux", "Darwin"} =>
        /\ phase # "serving"
        /\ "server_started" \notin log
        /\ clients = {}
        /\ phase # "start" => "unsupported_platform" \in log
        /\ phase = "exited" => exitCode = 0

\* C8 witness: the process has ended on an unsupported platform
C8_Witness ==
    /\ system \notin {"Windows", "Linux", "Darwin"}
    /\ phase = "exited"
    /\ "unsupported_platform" \in log

\* C9: construction completes without error and selects MumbleLink on
\* Windows, /dev/shm/MumbleLink.<uid> on Linux and /tmp/MumbleLink.<uid> on Darwin
C9_LinkNameSelected ==
    (phase # "start" /\ system \in {"Windows", "Linux", "Darwin"}) =>
        /\ "traceback" \notin log
        /\ link_name =
              IF system = "Windows" THEN [kind |-> "str", text |-> "MumbleLink"]
              ELSE IF system = "Linux"
              THEN [kind |-> "str", text |-> "/dev/shm/MumbleLink.", uid |-> uid]
              ELSE [kind |-> "str", text |-> "/tmp/MumbleLink.", uid |-> uid]

\* C10 as stated: a message with a vector of fewer than 3 elements is still
\* encoded, the missing elements as zero
C10_ShortVectorZeroFilled ==
    \A c \in Conns :
        (pc[c] = "debug" /\ msg[c].parse = "object" /\ HasShortVector(msg[c]))
            => outcome[c] # "update_error"

\* C10 amended: a message with a vector of fewer than 3 elements is not
\* encoded and not written: no record reaches the write, the update ends
\* with the logged error, the region keeps its content and the connection
\* stays open
C10_ShortVectorRejected ==
    \A c \in Conns :
        HasShortVector(msg[c]) =>
            /\ pc[c] # "write"
            /\ c \in clients
            /\ pc[c] = "debug" => (outcome[c] = "update_error" /\ region = region0)

\* C10 witness: the update of a message with a short vector has ended in error
C10_Witness ==
    \E c \in Conns :
        /\ HasShortVector(msg[c])
        /\ pc[c] = "debug"
        /\ outcome[c] = "update_error"

====
